---------------------------- MODULE Spec2Model ----------------------------
(***************************************************************************)
(* A model of goldilex: the external controller (node selection, path      *)
(* computation, path-prefix retrieval, constraint extraction), the         *)
(* validation engine (citation, rule-mapping and constraint checks and     *)
(* their aggregation) and the generate/validate/regenerate loop of the     *)
(* /api/generate route.                                                    *)
(*                                                                         *)
(* Text.  A string is modelled as the sequence of its whitespace-separated *)
(* tokens.  A token is a record [w, cap, p]: w is the token's letters or   *)
(* digits in lower case, cap says that its first letter is a capital, and  *)
(* p is its punctuation: "none", "dot" (a trailing period, as in "v." or   *)
(* at the end of a sentence) or "abbr" (a period after every letter, as in *)
(* "U.S.").  The vocabulary is chosen so that no word the code searches    *)
(* for is a proper substring of another word of the vocabulary; under that *)
(* choice JavaScript's String.includes on space-joined words is            *)
(* containment of a contiguous run of tokens.                              *)
(***************************************************************************)
EXTENDS Integers, Sequences, FiniteSets, TLC

VARIABLES
    \* ---- one request to POST /api/generate
    req,              \* the request body
    pc,               \* position of the handler
    context,          \* AuthorizedContext of the request
    instructions,     \* the prompt of the next collaborator call
    iterations,       \* route.ts: let iterations
    generatedText,    \* route.ts: let generatedText
    validationReport, \* route.ts: let validationReport
    status,           \* route.ts: let status
    response,         \* what the handler returned
    calls,            \* history: the prompts sent to the collaborator
    reports,          \* history: the validation reports, one per validated reply
    \* ---- retrieveReasoningObjects applied to a path and a list of items
    rPath, rItems, rOut, rDone,
    \* ---- the aggregation of validateGeneratedText applied to three checks
    vChecks, vOut, vDone,
    \* ---- the taxonomy navigator applied to a query or a node of a taxonomy
    nTaxonomy, nQuery, nTarget, nNode, nPath, nDone,
    \* ---- one check of the validation engine applied to a text
    tText, tItems, tConstraints, tOut, tDone,
    \* ---- the similarity scorer applied to two texts
    sText1, sText2, sOut, sDone,
    \* ---- two requests in flight on one knowledge base
    kb,               \* the knowledge base both requests read
    inst              \* the handler of each request

loopVars == <<req, pc, context, instructions, iterations, generatedText,
              validationReport, status, response, calls, reports>>
retrVars == <<rPath, rItems, rOut, rDone>>
aggVars  == <<vChecks, vOut, vDone>>
navVars  == <<nTaxonomy, nQuery, nTarget, nNode, nPath, nDone>>
valVars  == <<tText, tItems, tConstraints, tOut, tDone>>
simVars  == <<sText1, sText2, sOut, sDone>>
twoVars  == <<kb, inst>>
extVars  == <<valVars, simVars, twoVars>>
vars     == <<loopVars, retrVars, aggVars, navVars, extVars>>

\* JavaScript's undefined / null, for a string-valued field
NULL == "undefined"
\* JavaScript's !id for an id that is a string, null or undefined
falsy(id) == id = NULL \/ id = ""
\* null where a TaxonomyNode is expected
NoNode == [id |-> NULL, title |-> <<>>, parent_id |-> NULL]

-----------------------------------------------------------------------------
(* Text *)

lc(w)  == [w |-> w, cap |-> FALSE, p |-> "none"]
Cap(w) == [w |-> w, cap |-> TRUE,  p |-> "none"]
Dot(t) == [t EXCEPT !.p = "dot"]
\* the token "U.S."
US == [w |-> "us", cap |-> TRUE, p |-> "abbr"]

NumWords  == {"1", "392", "389", "347"}
Len1Words == {"v", "u", "s", "1", "a"}
Len2Words == {"us", "is", "in", "of", "to"}
Len3Words == {"the", "law", "392", "389", "347", "may", "and"}

\* String.length of a word, saturated at 4 (the code compares it with 2 and 3)
CharLen(w) ==
    IF w = "" THEN 0
    ELSE IF w \in Len1Words THEN 1
    ELSE IF w \in Len2Words THEN 2
    ELSE IF w \in Len3Words THEN 3
    ELSE 4

RECURSIVE Flatten(_)
Flatten(ss) == IF ss = <<>> THEN <<>> ELSE Head(ss) \o Flatten(Tail(ss))

ToSet(s) == {s[i] : i \in 1..Len(s)}

\* the letters of an "abbr" token, one word per letter ("us" -> "u", "s")
AbbrLetters(w) == IF w = "us" THEN <<"u", "s">> ELSE <<w>>

\* s.toLowerCase()
toLowerCase(s) == [i \in 1..Len(s) |-> [s[i] EXCEPT !.cap = FALSE]]

\* s.split(/\s+/): the empty string splits into one empty token
EmptyToken == lc("")
splitWs(s) == IF s = <<>> THEN <<EmptyToken>> ELSE s

\* s.replace(/[^\w\s]/g, ' ').split(/\s+/) as the words it yields; the empty
\* strings the split leaves at the ends have length 0
punctToSpaceWords(s) ==
    Flatten([i \in 1..Len(s) |->
        IF s[i].p = "abbr" THEN AbbrLetters(s[i].w)
        ELSE IF s[i].w = "" THEN <<>> ELSE <<s[i].w>>])

\* hay.includes(needle) for space-joined token sequences
includes(hay, needle) ==
    \/ needle = <<>>
    \/ \E i \in 1..(Len(hay) - Len(needle) + 1) :
          SubSeq(hay, i, i + Len(needle) - 1) = needle

\* textLower.includes(kw) for one lower-case word kw of the vocabulary: the
\* word occurs in the text whatever punctuation follows it
includesWord(text, kw) ==
    \E i \in 1..Len(text) : text[i].p # "abbr" /\ text[i].w = kw

-----------------------------------------------------------------------------
(* Similarity: the cosine of two term-frequency vectors.  The value          *)
(* dot / (sqrt(n1) * sqrt(n2)) is kept as the fraction of its square,        *)
(* [num |-> dot^2, den |-> n1 * n2]; the cosine is never negative, so         *)
(* comparing squares compares the values.                                     *)

Count(words, word) == Cardinality({i \in 1..Len(words) : words[i] = word})

RECURSIVE SumOver(_, _)
SumOver(f, S) ==
    IF S = {} THEN 0
    ELSE LET x == CHOOSE y \in S : TRUE IN f[x] + SumOver(f, S \ {x})

Zero == [num |-> 0, den |-> 1]
One  == [num |-> 1, den |-> 1]
Less(a, b) == a.num * b.den < b.num * a.den
Max(a, b) == IF Less(a, b) THEN b ELSE a
Min(a, b) == IF Less(b, a) THEN b ELSE a

computeCosineSimilarity(text1, text2) ==
    LET words1 == splitWs(toLowerCase(text1))
        words2 == splitWs(toLowerCase(text2))
        allWords == ToSet(words1) \cup ToSet(words2)
        dotProduct == SumOver([x \in allWords |-> Count(words1, x) * Count(words2, x)], allWords)
        sq1 == SumOver([x \in allWords |-> Count(words1, x) * Count(words1, x)], allWords)
        sq2 == SumOver([x \in allWords |-> Count(words2, x) * Count(words2, x)], allWords)
    IN  IF sq1 = 0 \/ sq2 = 0 THEN Zero
        ELSE [num |-> dotProduct * dotProduct, den |-> sq1 * sq2]

\* validation.ts carries its own copy of the same function
computeSimilarity(text1, text2) == computeCosineSimilarity(text1, text2)

-----------------------------------------------------------------------------
(* Taxonomy navigator *)

stopWords ==
    {"the", "a", "an", "and", "or", "but", "in", "on", "at", "to", "for",
     "of", "with", "by", "from", "as", "is", "was", "are", "were", "been",
     "be", "have", "has", "had", "do", "does", "did", "will", "would",
     "should", "could", "may", "might", "can", "what", "which", "who",
     "when", "where", "why", "how"}

isStopWord(word) == word \in stopWords

\* determineTargetNode's default threshold 0.15, as the fraction of its square
NodeThreshold == [num |-> 225, den |-> 10000]

\* taxonomy.find(n => !n.parent_id) || taxonomy[0] || null
rootFallback(taxonomy) ==
    IF \E i \in 1..Len(taxonomy) : falsy(taxonomy[i].parent_id)
    THEN taxonomy[CHOOSE i \in 1..Len(taxonomy) :
                    /\ falsy(taxonomy[i].parent_id)
                    /\ \A j \in 1..(i - 1) : ~falsy(taxonomy[j].parent_id)]
    ELSE IF taxonomy # <<>> THEN taxonomy[1] ELSE NoNode

\* a variant that lets a later node with an equal score replace the best one
RECURSIVE bestNodeUpToLastWins(_, _, _)
bestNodeUpToLastWins(query, taxonomy, k) ==
    IF k = 0 THEN [node |-> NoNode, score |-> NodeThreshold]
    ELSE LET prev == bestNodeUpToLastWins(query, taxonomy, k - 1)
             score == computeCosineSimilarity(query, toLowerCase(taxonomy[k].title))
         IN  IF ~Less(score, prev.score) /\ Less(NodeThreshold, score)
             THEN [node |-> taxonomy[k], score |-> score]
             ELSE prev

\* the for loop of determineTargetNode over taxonomy[1..k]: [node, score]
RECURSIVE bestNodeUpTo(_, _, _)
bestNodeUpTo(query, taxonomy, k) ==
    IF k = 0 THEN [node |-> NoNode, score |-> NodeThreshold]
    ELSE LET prev == bestNodeUpTo(query, taxonomy, k - 1)
             score == computeCosineSimilarity(query, toLowerCase(taxonomy[k].title))
         IN  IF Less(prev.score, score)
             THEN [node |-> taxonomy[k], score |-> score]
             ELSE prev

determineTargetNode(query, taxonomy) ==
    LET words == punctToSpaceWords(toLowerCase(query))
        queryTerms == SelectSeq(words, LAMBDA term : CharLen(term) > 2 /\ ~isStopWord(term))
        bestNode == bestNodeUpTo(query, taxonomy, Len(taxonomy)).node
    IN  IF Len(queryTerms) = 0 THEN rootFallback(taxonomy)
        ELSE IF bestNode = NoNode THEN rootFallback(taxonomy)
        ELSE bestNode

\* taxonomy.find(n => n.id === id) || null
findNode(taxonomy, id) ==
    IF \E i \in 1..Len(taxonomy) : taxonomy[i].id = id
    THEN taxonomy[CHOOSE i \in 1..Len(taxonomy) :
                    /\ taxonomy[i].id = id
                    /\ \A j \in 1..(i - 1) : taxonomy[j].id # id]
    ELSE NoNode

\* a variant that pushes the ids instead of unshifting them
RECURSIVE walkToRootPushing(_, _, _, _)
walkToRootPushing(currentNode, path, taxonomy, fuel) ==
    IF currentNode = NoNode \/ fuel = 0 THEN path
    ELSE LET path2 == Append(path, currentNode.id)
         IN  IF falsy(currentNode.parent_id) THEN path2
             ELSE walkToRootPushing(findNode(taxonomy, currentNode.parent_id), path2,
                                    taxonomy, fuel - 1)

\* the while loop of computeAnalyticalPath, from currentNode with the path
\* built so far; fuel bounds the walk (a cycle of parent links never ends)
RECURSIVE walkToRoot(_, _, _, _)
walkToRoot(currentNode, path, taxonomy, fuel) ==
    IF currentNode = NoNode \/ fuel = 0 THEN path
    ELSE LET path2 == <<currentNode.id>> \o path
         IN  IF falsy(currentNode.parent_id) THEN path2
             ELSE walkToRoot(findNode(taxonomy, currentNode.parent_id), path2,
                             taxonomy, fuel - 1)

computeAnalyticalPath(targetNode, taxonomy) ==
    walkToRoot(targetNode, <<>>, taxonomy, Len(taxonomy) + 1)

\* the while loop never ends: the walk is still going after more steps than
\* the taxonomy has nodes, so it runs round a cycle of parent links
walkDiverges(targetNode, taxonomy) ==
    Len(walkToRoot(targetNode, <<>>, taxonomy, Len(taxonomy) + 1)) > Len(taxonomy)

-----------------------------------------------------------------------------
(* Authority retriever *)

pathsMatch(path1, path2) ==
    IF Len(path1) # Len(path2) THEN FALSE
    ELSE \A idx \in 1..Len(path1) : path1[idx] = path2[idx]

\* a variant that also accepts an item on an ancestor of the target node
isAnalyticalPathPrefixEitherWay(analyticalPath, itemPath) ==
    \A idx \in 1..Len(analyticalPath) :
        idx > Len(itemPath) \/ analyticalPath[idx] = itemPath[idx]

isAnalyticalPathPrefixOfItem(analyticalPath, itemPath) ==
    IF Len(analyticalPath) > Len(itemPath) THEN FALSE
    ELSE \A idx \in 1..Len(analyticalPath) : analyticalPath[idx] = itemPath[idx]

\* the for loop of retrieveReasoningObjects over items[1..k]
RECURSIVE retrieveUpTo(_, _, _)
retrieveUpTo(analyticalPath, items, k) ==
    IF k = 0 THEN [exactMatches |-> <<>>, inheritedMatches |-> <<>>]
    ELSE LET acc == retrieveUpTo(analyticalPath, items, k - 1)
             item == items[k]
         IN  IF pathsMatch(item.taxonomy_path, analyticalPath)
             THEN [acc EXCEPT !.exactMatches = Append(@, item)]
             ELSE IF isAnalyticalPathPrefixOfItem(analyticalPath, item.taxonomy_path)
             THEN [acc EXCEPT !.inheritedMatches = Append(@, item)]
             ELSE acc

\* a variant that keeps the matches in source order
retrieveInSourceOrder(analyticalPath, items) ==
    SelectSeq(items, LAMBDA item :
        \/ pathsMatch(item.taxonomy_path, analyticalPath)
        \/ isAnalyticalPathPrefixOfItem(analyticalPath, item.taxonomy_path))

retrieveReasoningObjects(analyticalPath, items) ==
    LET acc == retrieveUpTo(analyticalPath, items, Len(items))
    IN  acc.exactMatches \o acc.inheritedMatches

-----------------------------------------------------------------------------
(* Constraint extractor.  The notes of an item are modelled as the sequence  *)
(* of their paragraphs, [marker, content]: marker is the directive marker    *)
(* that opens the paragraph ("none" for plain text) and content the text     *)
(* that the marker's regular expression captures after it.                   *)

noteTypes == <<"test/standard", "element/factor", "macro-fork", "general">>

\* the matches of one pattern of parseNotesForConstraints, in text order
matchesOfType(notes, path, type) ==
    LET hits == SelectSeq(notes, LAMBDA seg : seg.marker = type /\ seg.content # <<>>)
    IN  [k \in 1..Len(hits) |->
            [id |-> NULL,
             path |-> path,
             note_type |-> type,
             content |-> hits[k].content,
             is_test_standard |-> (type = "test/standard"),
             is_element_factor |-> (type = "element/factor"),
             is_macro_fork |-> (type = "macro-fork")]]

\* the constraints of one item, pattern by pattern; the ids are drawn later
parseNotesForConstraints(notes, path) ==
    Flatten([t \in 1..Len(noteTypes) |-> matchesOfType(notes, path, noteTypes[t])])

\* a variant that takes the constraints of every item, whatever its path
retrieveConstraintObjectsUnfiltered(analyticalPath, bsetFile, rnd) ==
    LET items == bsetFile.items
        constraints == Flatten([i \in 1..Len(items) |->
            parseNotesForConstraints(items[i].notes, items[i].taxonomy_path)])
    IN  [k \in 1..Len(constraints) |-> [constraints[k] EXCEPT !.id = rnd[k]]]

\* rnd[k] is the value Math.random() yields for the k-th constraint created
retrieveConstraintObjects(analyticalPath, bsetFile, rnd) ==
    LET items == bsetFile.items
        perItem == [i \in 1..Len(items) |->
            IF items[i].notes = <<>> THEN <<>>
            ELSE IF /\ ~pathsMatch(items[i].taxonomy_path, analyticalPath)
                    /\ ~isAnalyticalPathPrefixOfItem(analyticalPath, items[i].taxonomy_path)
                 THEN <<>>
                 ELSE parseNotesForConstraints(items[i].notes, items[i].taxonomy_path)]
        constraints == Flatten(perItem)
    IN  [k \in 1..Len(constraints) |-> [constraints[k] EXCEPT !.id = rnd[k]]]

assembleAuthorizedContext(analyticalPath, targetNode, reasoningObjects, constraintObjects) ==
    [reasoning_objects |-> reasoningObjects,
     constraint_objects |-> constraintObjects,
     analytical_path |-> analyticalPath,
     target_node |-> targetNode]

\* a variant that selects a node for the query when targetNodeId names none
processQueryFallingBack(bsetFile, query, targetNodeId, rnd) ==
    LET taxonomy == bsetFile.headings
        named == IF ~falsy(targetNodeId) THEN findNode(taxonomy, targetNodeId) ELSE NoNode
        targetNode == IF named # NoNode THEN named
                      ELSE determineTargetNode(query, taxonomy)
        analyticalPath == computeAnalyticalPath(targetNode, taxonomy)
    IN  IF targetNode = NoNode
        THEN [threw |-> TRUE,
              value |-> "Could not determine target analytical node from query"]
        ELSE [threw |-> FALSE,
              value |-> assembleAuthorizedContext(
                            analyticalPath, targetNode,
                            retrieveReasoningObjects(analyticalPath, bsetFile.items),
                            retrieveConstraintObjects(analyticalPath, bsetFile, rnd))]

\* ExternalController.processQuery: the context, or the error it throws
processQuery(bsetFile, query, targetNodeId, rnd) ==
    LET taxonomy == bsetFile.headings
        targetNode == IF ~falsy(targetNodeId) THEN findNode(taxonomy, targetNodeId)
                      ELSE determineTargetNode(query, taxonomy)
        analyticalPath == computeAnalyticalPath(targetNode, taxonomy)
    IN  IF targetNode = NoNode
        THEN [threw |-> TRUE,
              value |-> "Could not determine target analytical node from query"]
        ELSE [threw |-> FALSE,
              value |-> assembleAuthorizedContext(
                            analyticalPath, targetNode,
                            retrieveReasoningObjects(analyticalPath, bsetFile.items),
                            retrieveConstraintObjects(analyticalPath, bsetFile, rnd))]

-----------------------------------------------------------------------------
(* Instruction compiler.  A prompt is a sequence of blocks [block, body];    *)
(* the fixed sentences of a block are left out, its variable parts kept.     *)

contentsOf(constraints) == [k \in 1..Len(constraints) |-> constraints[k].content]

generateStructuredInstructions(ctx, query) ==
    <<[block |-> "compiled",
       body |-> [domain |-> ctx.target_node.title,
                 query |-> query,
                 tests |-> contentsOf(SelectSeq(ctx.constraint_objects,
                                                LAMBDA c : c.is_test_standard)),
                 elements |-> contentsOf(SelectSeq(ctx.constraint_objects,
                                                   LAMBDA c : c.is_element_factor)),
                 objects |-> ctx.reasoning_objects]]>>

-----------------------------------------------------------------------------
(* Validation engine *)

\* a token that [A-Z][a-zA-Z]+ matches whole
isCapWord(t) ==
    t.cap /\ t.p # "abbr" /\ t.w \notin NumWords /\ CharLen(t.w) >= 2

isV(t) == t.w = "v" /\ ~t.cap /\ t.p = "dot"

isNum(t) == t.w \in NumWords /\ t.p # "abbr"

\* pattern1 matches with its first group beginning at token s
matchesCaseAt(text, s) ==
    \E v \in (s + 1)..(Len(text) - 1) :
        /\ \A i \in s..(v - 1) : isCapWord(text[i]) /\ text[i].p = "none"
        /\ isV(text[v])
        /\ isCapWord(text[v + 1])

\* the token before the "v." of the match that begins at s
endOfGroup1(text, s) ==
    CHOOSE a \in s..Len(text) :
        /\ \A i \in s..a : isCapWord(text[i]) /\ text[i].p = "none"
        /\ a + 1 <= Len(text) /\ isV(text[a + 1])

\* the greedy second group that begins at token g: its last token
RECURSIVE endOfGroup2(_, _)
endOfGroup2(text, g) ==
    IF text[g].p = "none" /\ g + 1 <= Len(text) /\ isCapWord(text[g + 1])
    THEN endOfGroup2(text, g + 1)
    ELSE g

\* the text of a match that ends inside token b: b's trailing period is not part of it
matchText(text, s, b) ==
    [i \in 1..(b - s + 1) |->
        IF i = b - s + 1 THEN [text[b] EXCEPT !.p = "none"] ELSE text[s + i - 1]]

\* while ((match = pattern1.exec(text)) !== null), from token `from` on
RECURSIVE scanPattern1(_, _)
scanPattern1(text, from) ==
    IF \A s \in from..Len(text) : ~matchesCaseAt(text, s) THEN <<>>
    ELSE LET s == CHOOSE x \in from..Len(text) :
                      /\ matchesCaseAt(text, x)
                      /\ \A y \in from..(x - 1) : ~matchesCaseAt(text, y)
             a == endOfGroup1(text, s)
             b == endOfGroup2(text, a + 2)
         IN  <<SubSeq(text, s, a) \o <<Dot(lc("v"))>> \o matchText(text, a + 2, b)>>
                 \o scanPattern1(text, b + 1)

matchesReporterAt(text, s) ==
    /\ s + 2 <= Len(text)
    /\ isNum(text[s]) /\ text[s].p = "none"
    /\ text[s + 1] = US
    /\ isNum(text[s + 2])

RECURSIVE scanPattern2(_, _)
scanPattern2(text, from) ==
    IF \A s \in from..Len(text) : ~matchesReporterAt(text, s) THEN <<>>
    ELSE LET s == CHOOSE x \in from..Len(text) :
                      /\ matchesReporterAt(text, x)
                      /\ \A y \in from..(x - 1) : ~matchesReporterAt(text, y)
         IN  <<matchText(text, s, s + 2)>> \o scanPattern2(text, s + 3)

\* [...new Set(citations)]: the first occurrence of each element, in order
RECURSIVE dedupe(_)
dedupe(s) ==
    IF s = <<>> THEN <<>>
    ELSE LET front == dedupe(SubSeq(s, 1, Len(s) - 1))
             last == s[Len(s)]
         IN  IF last \in ToSet(front) THEN front ELSE Append(front, last)

extractCitations(text) == dedupe(scanPattern1(text, 1) \o scanPattern2(text, 1))

\* lower case, punctuation deleted, whitespace collapsed, trimmed
normalizeCitation(citation) ==
    LET kept == SelectSeq(citation, LAMBDA t : t.w # "")
    IN  [i \in 1..Len(kept) |-> lc(kept[i].w)]

\* a variant that authorizes a citation sharing any word with the item's name
isAuthorizedBySharedWord(normalized, obj) ==
    ToSet(normalized) \cap ToSet(normalizeCitation(obj.name)) # {}

\* the callback of authorizedObjects.some in verifyCitations
isAuthorizedBy(normalized, obj) ==
    LET objName == normalizeCitation(obj.name)
        objCitation == normalizeCitation(obj.citation)
    IN  \/ normalized = objName
        \/ normalized = objCitation
        \/ includes(normalized, objName)
        \/ includes(objName, normalized)

\* an absent similarity or threshold
NoSim == [num |-> -1, den |-> 1]

\* a ValidationCheck; a text field that the check does not set is the empty text.
\* details keeps the count and the list that the message is formatted from
Check(type, st, count, listed) ==
    [check_type |-> type, status |-> st, details |-> [count |-> count, listed |-> listed],
     failed_assertion |-> <<>>, best_match_similarity |-> NoSim,
     threshold |-> NoSim, missing_element |-> <<>>]

verifyCitations(text, authorizedObjects) ==
    LET extractedCitations == extractCitations(text)
        unauthorizedCitations ==
            SelectSeq(extractedCitations, LAMBDA citation :
                ~\E k \in 1..Len(authorizedObjects) :
                    isAuthorizedBy(normalizeCitation(citation), authorizedObjects[k]))
    IN  IF Len(unauthorizedCitations) > 0
        THEN [Check("citation_verification", "FAIL", Len(unauthorizedCitations), unauthorizedCitations)
                EXCEPT !.failed_assertion = unauthorizedCitations[1]]
        ELSE Check("citation_verification", "PASS", Len(extractedCitations), <<>>)

\* text.split(/[.!?]+/) over text[1..k]: the sentences closed so far and the
\* sentence that is open; a period closes a sentence and belongs to none
RECURSIVE sentencesUpTo(_, _)
sentencesUpTo(text, k) ==
    IF k = 0 THEN [closed |-> <<>>, open |-> <<>>]
    ELSE LET acc == sentencesUpTo(text, k - 1)
             t == text[k]
             letters == AbbrLetters(t.w)
         IN  IF t.p = "none" THEN [acc EXCEPT !.open = Append(@, t)]
             ELSE IF t.p = "dot"
             THEN [closed |-> Append(acc.closed,
                                     IF t.w = "" THEN acc.open
                                     ELSE Append(acc.open, [t EXCEPT !.p = "none"])),
                   open |-> <<>>]
             ELSE [closed |-> Append(acc.closed,
                                     Append(acc.open, [w |-> letters[1], cap |-> t.cap, p |-> "none"]))
                              \o [i \in 1..(Len(letters) - 1) |->
                                     <<[w |-> letters[i + 1], cap |-> t.cap, p |-> "none"]>>],
                   open |-> <<>>]

splitSentences(text) ==
    LET acc == sentencesUpTo(text, Len(text)) IN Append(acc.closed, acc.open)

normativeKeywords ==
    << <<"rule", "is">>, <<"court", "held">>, <<"standard", "requires">>,
       <<"test", "is">>, <<"must">>, <<"shall">>, <<"requires">>,
       <<"prohibits">>, <<"allows">>, <<"permits">> >>

wordsOf(s) == [i \in 1..Len(s) |-> s[i].w]

extractRuleStatements(text) ==
    SelectSeq(splitSentences(text), LAMBDA sentence :
        \E k \in 1..Len(normativeKeywords) :
            includes(wordsOf(toLowerCase(sentence)), normativeKeywords[k]))

\* verifyRuleMappings' SIMILARITY_THRESHOLD 0.65, as the fraction of its square
SIMILARITY_THRESHOLD == [num |-> 4225, den |-> 10000]

\* obj.rule_of_law || obj.rule || obj.holding || ''
authorizedRuleOf(obj) ==
    IF obj.rule_of_law # <<>> THEN obj.rule_of_law
    ELSE IF obj.rule # <<>> THEN obj.rule
    ELSE obj.holding

\* the inner for loop of verifyRuleMappings over authorizedObjects[1..k]
RECURSIVE maxSimilarityUpTo(_, _, _)
maxSimilarityUpTo(rule, authorizedObjects, k) ==
    IF k = 0 THEN Zero
    ELSE LET prev == maxSimilarityUpTo(rule, authorizedObjects, k - 1)
             authorizedRule == authorizedRuleOf(authorizedObjects[k])
         IN  IF authorizedRule = <<>> THEN prev
             ELSE Max(prev, computeSimilarity(rule, authorizedRule))

\* a variant that also fails a sentence whose best match equals the threshold
RECURSIVE unmappedUpToInclusive(_, _, _)
unmappedUpToInclusive(extractedRules, authorizedObjects, k) ==
    IF k = 0 THEN [unmappedRules |-> <<>>, lowestSimilarity |-> One]
    ELSE LET acc == unmappedUpToInclusive(extractedRules, authorizedObjects, k - 1)
             maxSimilarity == maxSimilarityUpTo(extractedRules[k], authorizedObjects,
                                                Len(authorizedObjects))
         IN  IF ~Less(SIMILARITY_THRESHOLD, maxSimilarity)
             THEN [unmappedRules |-> Append(acc.unmappedRules, extractedRules[k]),
                   lowestSimilarity |-> Min(acc.lowestSimilarity, maxSimilarity)]
             ELSE acc

\* the outer for loop over extractedRules[1..k]
RECURSIVE unmappedUpTo(_, _, _)
unmappedUpTo(extractedRules, authorizedObjects, k) ==
    IF k = 0 THEN [unmappedRules |-> <<>>, lowestSimilarity |-> One]
    ELSE LET acc == unmappedUpTo(extractedRules, authorizedObjects, k - 1)
             maxSimilarity == maxSimilarityUpTo(extractedRules[k], authorizedObjects,
                                                Len(authorizedObjects))
         IN  IF Less(maxSimilarity, SIMILARITY_THRESHOLD)
             THEN [unmappedRules |-> Append(acc.unmappedRules, extractedRules[k]),
                   lowestSimilarity |-> Min(acc.lowestSimilarity, maxSimilarity)]
             ELSE acc

verifyRuleMappings(text, authorizedObjects) ==
    LET extractedRules == extractRuleStatements(text)
        acc == unmappedUpTo(extractedRules, authorizedObjects, Len(extractedRules))
    IN  IF Len(acc.unmappedRules) > 0
        THEN [Check("rule_to_field_mapping", "FAIL", Len(acc.unmappedRules), <<>>)
                EXCEPT !.failed_assertion = acc.unmappedRules[1],
                       !.best_match_similarity = acc.lowestSimilarity,
                       !.threshold = SIMILARITY_THRESHOLD]
        ELSE Check("rule_to_field_mapping", "PASS", Len(extractedRules), <<>>)

\* the keywords of a constraint: its words longer than 3 characters
keywordsOf(content) ==
    SelectSeq(punctToSpaceWords(toLowerCase(content)), LAMBDA w : CharLen(w) > 3)

firstThree(s) == SubSeq(s, 1, IF Len(s) < 3 THEN Len(s) ELSE 3)

\* a variant that fails on a required test that is not mentioned
verifyConstraintComplianceStrict(text, ctx) ==
    LET textLower == toLowerCase(text)
        required == SelectSeq(ctx.constraint_objects,
                              LAMBDA c : c.is_element_factor \/ c.is_test_standard)
        missing ==
            contentsOf(SelectSeq(required, LAMBDA c :
                LET keywords == keywordsOf(c.content)
                    head3 == IF c.is_test_standard THEN firstThree(keywords) ELSE keywords
                    hasKeyword == \E i \in 1..Len(head3) : includesWord(textLower, head3[i])
                IN  ~hasKeyword /\ Len(keywords) > 0))
    IN  IF Len(missing) > 0
        THEN [Check("constraint_compliance", "FAIL", Len(missing), <<>>)
                EXCEPT !.missing_element = missing[1]]
        ELSE Check("constraint_compliance", "PASS", 0, <<>>)

verifyConstraintCompliance(text, ctx) ==
    LET textLower == toLowerCase(text)
        elementConstraints == SelectSeq(ctx.constraint_objects, LAMBDA c : c.is_element_factor)
        missingElements ==
            contentsOf(SelectSeq(elementConstraints, LAMBDA c :
                LET keywords == keywordsOf(c.content)
                    hasKeyword == \E i \in 1..Len(keywords) : includesWord(textLower, keywords[i])
                IN  ~hasKeyword /\ Len(keywords) > 0))
        testConstraints == SelectSeq(ctx.constraint_objects, LAMBDA c : c.is_test_standard)
        missingTests ==
            contentsOf(SelectSeq(testConstraints, LAMBDA c :
                LET keywords == keywordsOf(c.content)
                    head3 == firstThree(keywords)
                    mentionsTest == \E i \in 1..Len(head3) : includesWord(textLower, head3[i])
                IN  ~mentionsTest /\ Len(keywords) > 0))
    IN  IF Len(missingElements) > 0
        THEN [Check("constraint_compliance", "FAIL", Len(missingElements), <<>>)
                EXCEPT !.missing_element = missingElements[1]]
        ELSE IF Len(missingTests) > 0
        THEN Check("constraint_compliance", "WARNING", Len(missingTests), <<>>)
        ELSE Check("constraint_compliance", "PASS", 0, <<>>)

\* a variant that treats the rule-mapping check as the critical one
isCriticalCheckRule(checkType) == checkType = "rule_to_field_mapping"

isCriticalCheck(checkType) == checkType = "citation_verification"

\* validateGeneratedText from "Determine overall status" on
aggregateChecks(checks) ==
    LET hasCriticalFailure == \E i \in 1..Len(checks) :
            checks[i].status = "FAIL" /\ isCriticalCheck(checks[i].check_type)
        hasMajorFailure == \E i \in 1..Len(checks) : checks[i].status = "FAIL"
        hasWarning == \E i \in 1..Len(checks) : checks[i].status = "WARNING"
    IN  [overall_status |-> IF hasMajorFailure \/ hasCriticalFailure THEN "FAILED" ELSE "PASSED",
         validation_checks |-> checks,
         severity |-> IF hasCriticalFailure THEN "CRITICAL"
                      ELSE IF hasMajorFailure THEN "MAJOR"
                      ELSE IF hasWarning THEN "MINOR"
                      ELSE NULL,
         recommended_action |-> IF hasCriticalFailure THEN "REJECT"
                                ELSE IF hasMajorFailure THEN "REGENERATE"
                                ELSE IF hasWarning THEN "CORRECT"
                                ELSE NULL]

validateGeneratedText(text, ctx) ==
    aggregateChecks(<<verifyCitations(text, ctx.reasoning_objects),
                      verifyRuleMappings(text, ctx.reasoning_objects),
                      verifyConstraintCompliance(text, ctx)>>)

\* the directives one check contributes to generateConstraintAdjustments
adjustmentsOf(check) ==
    IF check.status # "FAIL" THEN <<>>
    ELSE IF check.check_type = "citation_verification"
    THEN <<[directive |-> "only_cite_authorized", about |-> <<>>]>>
    ELSE IF check.check_type = "rule_to_field_mapping"
    THEN <<[directive |-> "quote_rule_of_law", about |-> <<>>]>>
         \o (IF check.failed_assertion # <<>>
             THEN <<[directive |-> "assertion_did_not_map", about |-> check.failed_assertion]>>
             ELSE <<>>)
    ELSE IF check.check_type = "constraint_compliance"
    THEN (IF check.missing_element # <<>>
          THEN <<[directive |-> "address_element", about |-> check.missing_element]>>
          ELSE <<>>)
    ELSE <<>>

generateConstraintAdjustments(validationResult, ctx) ==
    Flatten([i \in 1..Len(validationResult.validation_checks) |->
                adjustmentsOf(validationResult.validation_checks[i])])

-----------------------------------------------------------------------------
(* The knowledge bases, queries and collaborator replies the requests use *)

Words(ws) == [i \in 1..Len(ws) |-> lc(ws[i])]

Item(id, name, citation, ruleOfLaw, holding, notes, path) ==
    [id |-> id, name |-> name, citation |-> citation, rule_of_law |-> ruleOfLaw,
     rule |-> <<>>, holding |-> holding, notes |-> notes, taxonomy_path |-> path]

Node(id, title, parent) == [id |-> id, title |-> title, parent_id |-> parent]

TerryName == <<Cap("terry"), Dot(lc("v")), Cap("ohio")>>
KatzName  == <<Cap("katz"), Dot(lc("v")), Cap("united"), Cap("states")>>
SmithName == <<Cap("smith"), Dot(lc("v")), Cap("jones")>>
TerryRule == Words(<<"police", "may", "stop", "and", "frisk", "with", "reasonable", "suspicion">>)

MainHeadings ==
    <<Node("root", <<Cap("fourth"), Cap("amendment")>>, NULL),
      Node("search", <<Cap("search")>>, "root"),
      Node("seizure", <<Cap("seizure")>>, "root"),
      Node("warrant", <<Cap("warrant")>>, "search")>>

MainItems ==
    <<Item("hodari", <<Cap("california"), Dot(lc("v")), Cap("hodari")>>, <<>>, <<>>,
           Words(<<"a", "seizure", "requires", "force">>), <<>>, <<"root", "seizure">>),
      Item("terry", TerryName, <<lc("392"), US, lc("1")>>, TerryRule, <<>>,
           <<[marker |-> "none", content |-> Words(<<"stop", "and", "frisk">>)],
             [marker |-> "test/standard", content |-> Words(<<"totality", "of", "the", "circumstances">>)],
             [marker |-> "element/factor", content |-> Words(<<"reasonable", "suspicion">>)]>>,
           <<"root", "search">>),
      Item("katz", KatzName, <<lc("389"), US, lc("347")>>, <<>>,
           Words(<<"a", "search", "requires", "a", "warrant">>), <<>>, <<"root", "search">>)>>

\* a taxonomy whose node "orphan" names a parent that does not exist
BrokenHeadings ==
    <<Node("root", <<Cap("fourth"), Cap("amendment")>>, NULL),
      Node("orphan", <<Cap("search")>>, "ghost")>>

BrokenItems ==
    <<Item("terry", TerryName, <<>>, TerryRule, <<>>, <<>>, <<"root", "orphan">>),
      Item("katz", KatzName, <<>>, <<>>, <<>>, <<>>, <<"orphan">>)>>

BSetNames == {"main", "broken"}

\* the parsed bset_file of a request, by name
bsetOf(name) ==
    IF name = "main" THEN [items |-> MainItems, headings |-> MainHeadings]
    ELSE [items |-> BrokenItems, headings |-> BrokenHeadings]

Queries ==
    {<<>>,
     Words(<<"search">>),
     Words(<<"what", "is", "the", "law">>)}

TargetNodeIds == {NULL, "", "search", "seizure", "warrant", "ghost"}

SystemInstructions == {<<>>, Words(<<"answer", "briefly">>)}

\* the values Math.random() is taken to yield
RandomIds == {"r1", "r2"}

\* replies of the collaborator
ReplyClean ==
    <<Cap("in")>> \o TerryName \o Words(<<"the", "police", "had", "reasonable", "suspicion",
        "under", "the", "totality", "of", "the">>) \o <<Dot(lc("circumstances"))>>
ReplyMapped ==
    Words(<<"police", "may", "stop", "and", "frisk", "with", "reasonable", "suspicion",
            "and", "must", "weigh", "the", "totality">>)
ReplyUnauthorized ==
    SmithName \o Words(<<"found", "reasonable", "suspicion", "in", "the">>) \o <<Dot(lc("totality"))>>
ReplyUnauthorizedUnmapped ==
    Words(<<"the", "court", "held", "otherwise", "in">>) \o SmithName
ReplyUnmapped ==
    TerryName \o Words(<<"shall", "govern", "reasonable", "suspicion", "and", "the">>)
        \o <<Dot(lc("totality"))>>
ReplyMissingElement ==
    <<Cap("see"), lc("392"), US, Dot(lc("1"))>> \o Words(<<"on", "the", "totality">>)
ReplyMissingTest ==
    TerryName \o Words(<<"turned", "on", "reasonable">>) \o <<Dot(lc("suspicion"))>>

Replies ==
    {<<>>, ReplyClean, ReplyMapped, ReplyUnauthorized, ReplyUnauthorizedUnmapped,
     ReplyUnmapped, ReplyMissingElement, ReplyMissingTest}

-----------------------------------------------------------------------------
(* POST /api/generate *)

MAX_ITERATIONS == 3

\* the largest max_iterations a request carries
MaxIter == 3

MaxIterationsValues == {<<>>} \cup {<<n>> : n \in 0..MaxIter}

Requests ==
    [query : Queries,
     bset_file : BSetNames \cup {NULL},
     target_node_id : TargetNodeIds,
     max_iterations : MaxIterationsValues,
     system_instructions : SystemInstructions]

\* const { max_iterations = MAX_ITERATIONS } = body
maxIterationsOf(r) ==
    IF r.max_iterations = <<>> THEN MAX_ITERATIONS ELSE r.max_iterations[1]

\* let validationReport, before its first assignment
NoReport ==
    [overall_status |-> NULL, validation_checks |-> <<>>,
     severity |-> NULL, recommended_action |-> NULL]

NoContext == assembleAuthorizedContext(<<>>, NoNode, <<>>, <<>>)

\* what NextResponse.json is given; a key that is undefined is not sent
Response(http, error, details, text, report, st, ctx, iters) ==
    [http |-> http, error |-> error, details |-> details, generated_text |-> text,
     validation_report |-> report, status |-> st, authorized_context |-> ctx,
     iterations |-> iters]

NoResponse == Response(0, NULL, NULL, <<>>, NoReport, NULL, NoContext, 0)

ErrorResponse(http, error, details, ctx) ==
    Response(http, error, details, <<>>, NoReport, NULL, ctx, 0)

\* lines 46-51: the prompt of the first attempt
firstInstructions(ctx, r) ==
    IF r.system_instructions # <<>>
    THEN <<[block |-> "system", body |-> r.system_instructions]>>
            \o generateStructuredInstructions(ctx, r.query)
    ELSE generateStructuredInstructions(ctx, r.query)

\* a variant that appends the feedback to the prompt of the last attempt
retryInstructionsAppending(report, ctx, r) ==
    instructions
        \o <<[block |-> "feedback", body |-> generateConstraintAdjustments(report, ctx)]>>

\* lines 101-110: the prompt of a retry
retryInstructions(report, ctx, r) ==
    generateStructuredInstructions(ctx, r.query)
        \o <<[block |-> "feedback", body |-> generateConstraintAdjustments(report, ctx)]>>

\* a variant without the break on CRITICAL
stepNineNoCriticalBreak(report, iters, maxIters, st) ==
    IF report.overall_status = "PASSED"
    THEN [status |-> "validated", break |-> TRUE, strengthen |-> FALSE]
    ELSE IF report.severity = "MINOR"
    THEN [status |-> "flagged", break |-> TRUE, strengthen |-> FALSE]
    ELSE IF iters < maxIters
    THEN [status |-> st, break |-> FALSE, strengthen |-> TRUE]
    ELSE [status |-> "flagged", break |-> FALSE, strengthen |-> FALSE]

\* a variant that accepts the text when the attempts are used up
stepNineValidatedOnExhaust(report, iters, maxIters, st) ==
    IF report.overall_status = "PASSED"
    THEN [status |-> "validated", break |-> TRUE, strengthen |-> FALSE]
    ELSE IF report.severity = "CRITICAL"
    THEN [status |-> "rejected", break |-> TRUE, strengthen |-> FALSE]
    ELSE IF report.severity = "MINOR"
    THEN [status |-> "flagged", break |-> TRUE, strengthen |-> FALSE]
    ELSE IF iters < maxIters
    THEN [status |-> st, break |-> FALSE, strengthen |-> TRUE]
    ELSE [status |-> "validated", break |-> FALSE, strengthen |-> FALSE]

\* a variant that forgets to set the status when the attempts are used up
stepNineNoFlagOnExhaust(report, iters, maxIters, st) ==
    IF report.overall_status = "PASSED"
    THEN [status |-> "validated", break |-> TRUE, strengthen |-> FALSE]
    ELSE IF report.severity = "CRITICAL"
    THEN [status |-> "rejected", break |-> TRUE, strengthen |-> FALSE]
    ELSE IF report.severity = "MINOR"
    THEN [status |-> "flagged", break |-> TRUE, strengthen |-> FALSE]
    ELSE [status |-> st, break |-> FALSE, strengthen |-> iters < maxIters]

\* Step 9 (lines 83-113) for one validation report: the status, whether the
\* loop is left by break, and whether the prompt is strengthened for a retry
stepNine(report, iters, maxIters, st) ==
    IF report.overall_status = "PASSED"
    THEN [status |-> "validated", break |-> TRUE, strengthen |-> FALSE]
    ELSE IF report.severity = "CRITICAL"
    THEN [status |-> "rejected", break |-> TRUE, strengthen |-> FALSE]
    ELSE IF report.severity = "MINOR"
    THEN [status |-> "flagged", break |-> TRUE, strengthen |-> FALSE]
    ELSE IF iters < maxIters
    THEN [status |-> st, break |-> FALSE, strengthen |-> TRUE]
    ELSE [status |-> "flagged", break |-> FALSE, strengthen |-> FALSE]

\* a variant that is off by one
loopConditionInclusive(iters, maxIters) == iters <= maxIters

\* while (iterations < max_iterations)
loopCondition(iters, maxIters) == iters < maxIters

\* the number of constraint paragraphs of a knowledge base
RECURSIVE SumLen(_)
SumLen(ss) == IF ss = <<>> THEN 0 ELSE Len(Head(ss)) + SumLen(Tail(ss))
notesCount(bset) == SumLen([i \in 1..Len(bset.items) |-> bset.items[i].notes])

\* the loop variables before a request, but for req and pc
FreshHandler ==
    /\ context = NoContext
    /\ instructions = <<>>
    /\ iterations = 0
    /\ generatedText = <<>>
    /\ validationReport = NoReport
    /\ status = NULL
    /\ response = NoResponse
    /\ calls = <<>>
    /\ reports = <<>>

NoRetrieval == rPath = <<>> /\ rItems = <<>> /\ rOut = <<>> /\ rDone = FALSE
NoAggregation == vChecks = <<>> /\ vOut = NoReport /\ vDone = FALSE
NoValidation ==
    /\ tText = <<>> /\ tItems = <<>> /\ tConstraints = <<>>
    /\ tOut = Check(NULL, NULL, 0, <<>>) /\ tDone = FALSE
NoSimilarity == sText1 = <<>> /\ sText2 = <<>> /\ sOut = Zero /\ sDone = FALSE
NoInstances == kb = [items |-> <<>>, headings |-> <<>>] /\ inst = <<>>
NoExtension == NoValidation /\ NoSimilarity /\ NoInstances
NoNavigation ==
    /\ nTaxonomy = <<>> /\ nQuery = <<>> /\ nTarget = NULL
    /\ nNode = NoNode /\ nPath = [outcome |-> "none", path |-> <<>>] /\ nDone = FALSE

Init ==
    /\ req \in Requests
    /\ pc = "received"
    /\ FreshHandler
    /\ NoRetrieval
    /\ NoAggregation
    /\ NoNavigation
    /\ NoExtension

\* leave the loop: lines 116-124
Return(text, report, st, ctx, iters) ==
    /\ response' = Response(200, NULL, NULL, text, report, st, ctx, iters)
    /\ pc' = "done"

\* enter the loop body: lines 60-72, up to the await
Invoke(prompt, iters) ==
    /\ iterations' = iters + 1
    /\ calls' = Append(calls, prompt)
    /\ pc' = "awaiting"
    /\ UNCHANGED response

\* a variant that only requires the query
missingRequiredFieldQuery(r) == r.query = <<>>

\* if (!query || !bset_file)
missingRequiredField(r) == r.query = <<>> \/ r.bset_file = NULL

\* a variant that goes on without authorized objects
noReasoningObjectsIgnored(ctx) == FALSE

\* if (context.reasoning_objects.length === 0)
noReasoningObjects(ctx) == Len(ctx.reasoning_objects) = 0

\* the handler from the request to its first await or its return
Begin ==
    /\ pc = "received"
    /\ UNCHANGED <<req, reports, retrVars, aggVars, navVars, extVars>>
    /\ IF missingRequiredField(req)
       THEN /\ response' = ErrorResponse(400, "Missing required fields: query and bset_file",
                                         NULL, NoContext)
            /\ pc' = "done"
            /\ UNCHANGED <<context, instructions, iterations, generatedText,
                           validationReport, status, calls>>
       ELSE \E rnd \in [1..notesCount(bsetOf(req.bset_file)) -> RandomIds] :
            \E result \in {processQuery(bsetOf(req.bset_file), req.query,
                                        req.target_node_id, rnd)} :
            LET ctx == result.value
                prompt == firstInstructions(ctx, req)
            IN  IF result.threw
                THEN /\ response' = ErrorResponse(500, "Internal server error",
                                                  result.value, NoContext)
                     /\ pc' = "done"
                     /\ UNCHANGED <<context, instructions, iterations, generatedText,
                                    validationReport, status, calls>>
                ELSE IF noReasoningObjects(ctx)
                THEN /\ response' = ErrorResponse(404,
                            "No authorized reasoning objects found for this query", NULL, ctx)
                     /\ pc' = "done"
                     /\ context' = ctx
                     /\ UNCHANGED <<instructions, iterations, generatedText,
                                    validationReport, status, calls>>
                ELSE /\ context' = ctx
                     /\ instructions' = prompt
                     /\ generatedText' = <<>>
                     /\ validationReport' = NoReport
                     /\ status' = "rejected"
                     /\ IF loopCondition(0, maxIterationsOf(req))
                        THEN Invoke(prompt, 0)
                        ELSE /\ Return(<<>>, NoReport, "rejected", ctx, 0)
                             /\ UNCHANGED <<iterations, calls>>

\* the collaborator answers: lines 74-114, then the next attempt or the return
Reply(text) ==
    /\ pc = "awaiting"
    /\ UNCHANGED <<req, context, retrVars, aggVars, navVars, extVars>>
    /\ \E report \in {validateGeneratedText(text, context)} :
       \E step \in {stepNine(report, iterations, maxIterationsOf(req), status)} :
       \E prompt \in {IF step.strengthen THEN retryInstructions(report, context, req)
                     ELSE instructions} :
           /\ generatedText' = text
           /\ validationReport' = report
           /\ reports' = Append(reports, report)
           /\ status' = step.status
           /\ instructions' = prompt
           /\ IF ~step.break /\ loopCondition(iterations, maxIterationsOf(req))
              THEN Invoke(prompt, iterations)
              ELSE /\ Return(text, report, step.status, context, iterations)
                   /\ UNCHANGED <<iterations, calls>>

\* a variant that catches the error inside the loop and tries again
FailAndRetry ==
    /\ pc = "awaiting"
    /\ UNCHANGED <<req, context, instructions, generatedText, validationReport,
                   status, reports, retrVars, aggVars, navVars, extVars>>
    /\ IF loopCondition(iterations, maxIterationsOf(req))
       THEN Invoke(instructions, iterations)
       ELSE /\ Return(generatedText, validationReport, status, context, iterations)
            /\ UNCHANGED <<iterations, calls>>

\* anthropic.messages.create rejects: the catch block, lines 126-135
Fail ==
    /\ pc = "awaiting"
    /\ response' = ErrorResponse(500, "Internal server error", "collaborator error", NoContext)
    /\ pc' = "done"
    /\ UNCHANGED <<req, context, instructions, iterations, generatedText,
                   validationReport, status, calls, reports, retrVars, aggVars,
                   navVars, extVars>>

Next ==
    \/ Begin
    \/ \E text \in Replies : Reply(text)
    \/ Fail

Spec == Init /\ [][Next]_vars

-----------------------------------------------------------------------------
(* retrieveReasoningObjects on its own: every query path and every list of  *)
(* up to MaxItems items over the paths below                                *)

MaxItems == 3

QueryPaths ==
    {<<"root">>, <<"search">>, <<"root", "search">>, <<"root", "seizure">>,
     <<"root", "search", "warrant">>}

ItemPaths == QueryPaths \cup {<<>>}

\* item k of a list carries the id k
ItemLists ==
    UNION {{[k \in 1..n |-> [id |-> k, taxonomy_path |-> f[k]]] : f \in [1..n -> ItemPaths]}
           : n \in 0..MaxItems}

NoRequest ==
    [query |-> <<>>, bset_file |-> NULL, target_node_id |-> NULL,
     max_iterations |-> <<>>, system_instructions |-> <<>>]

NoHandler == req = NoRequest /\ pc = "idle" /\ FreshHandler

InitRetrieve ==
    /\ rPath \in QueryPaths
    /\ rItems \in ItemLists
    /\ rOut = <<>>
    /\ rDone = FALSE
    /\ NoHandler
    /\ NoAggregation
    /\ NoNavigation
    /\ NoExtension

Retrieve ==
    /\ ~rDone
    /\ rOut' = retrieveReasoningObjects(rPath, rItems)
    /\ rDone' = TRUE
    /\ UNCHANGED <<rPath, rItems, loopVars, aggVars, navVars, extVars>>

NextRetrieve == Retrieve

SpecRetrieve == InitRetrieve /\ [][NextRetrieve]_vars

-----------------------------------------------------------------------------
(* The aggregation of validateGeneratedText on its own: the three checks in *)
(* every order, with every combination of statuses                          *)

CheckTypes == {"citation_verification", "rule_to_field_mapping", "constraint_compliance"}
Statuses == {"PASS", "FAIL", "WARNING"}

CheckLists ==
    {[k \in 1..3 |-> Check(order[k], st[order[k]], 0, <<>>)] :
        order \in {o \in [1..3 -> CheckTypes] : \A t \in CheckTypes : \E k \in 1..3 : o[k] = t},
        st \in [CheckTypes -> Statuses]}

InitAggregate ==
    /\ vChecks \in CheckLists
    /\ vOut = NoReport
    /\ vDone = FALSE
    /\ NoHandler
    /\ NoRetrieval
    /\ NoNavigation
    /\ NoExtension

Aggregate ==
    /\ ~vDone
    /\ vOut' = aggregateChecks(vChecks)
    /\ vDone' = TRUE
    /\ UNCHANGED <<vChecks, loopVars, retrVars, navVars, extVars>>

NextAggregate == Aggregate

SpecAggregate == InitAggregate /\ [][NextAggregate]_vars

-----------------------------------------------------------------------------
(* computeAnalyticalPath on its own: every node of every taxonomy of up to  *)
(* MaxNodes nodes whose parent ids are absent, ids of the taxonomy (itself  *)
(* included) or the id of no node                                           *)

MaxNodes == 3

NodeIdSeq == <<"a", "b", "c", "d", "e">>

ParentIds(n) == {NULL, "ghost"} \cup {NodeIdSeq[k] : k \in 1..n}

PathTaxonomies ==
    UNION {{[k \in 1..n |-> Node(NodeIdSeq[k], <<>>, parent[k])] :
                parent \in [1..n -> ParentIds(n)]}
           : n \in 1..MaxNodes}

InitPath ==
    /\ nTaxonomy \in PathTaxonomies
    /\ nTarget \in {NodeIdSeq[k] : k \in 1..MaxNodes}
    /\ \E k \in 1..Len(nTaxonomy) : nTaxonomy[k].id = nTarget
    /\ nQuery = <<>>
    /\ nNode = NoNode
    /\ nPath = [outcome |-> "none", path |-> <<>>]
    /\ nDone = FALSE
    /\ NoHandler
    /\ NoRetrieval
    /\ NoAggregation
    /\ NoExtension

ComputePath ==
    /\ ~nDone
    /\ \E node \in {findNode(nTaxonomy, nTarget)} :
          /\ nNode' = node
          /\ nPath' = IF walkDiverges(node, nTaxonomy)
                      THEN [outcome |-> "diverges", path |-> <<>>]
                      ELSE [outcome |-> "returned",
                            path |-> computeAnalyticalPath(node, nTaxonomy)]
    /\ nDone' = TRUE
    /\ UNCHANGED <<nTaxonomy, nQuery, nTarget, loopVars, retrVars, aggVars, extVars>>

NextPath == ComputePath

SpecPath == InitPath /\ [][NextPath]_vars

-----------------------------------------------------------------------------
(* determineTargetNode on its own: the queries below against every taxonomy *)
(* of up to MaxNodes nodes with the titles below, each node parentless or   *)
(* under the first node                                                     *)

SelectTitles ==
    {<<Cap("search")>>,
     <<Cap("warrant")>>,
     <<Cap("search"), Cap("warrant")>>,
     <<Cap("law"), lc("of"), lc("the"), Cap("land")>>}

SelectQueries ==
    {<<>>,
     Words(<<"search">>),
     <<Cap("search"), lc("warrant")>>,
     Words(<<"of", "the">>),
     Words(<<"the", "law">>)}

SelectTaxonomies ==
    UNION {{[k \in 1..n |-> Node(NodeIdSeq[k], title[k], parent[k])] :
                title \in [1..n -> SelectTitles],
                parent \in [1..n -> {NULL, NodeIdSeq[1]}]}
           : n \in 0..MaxNodes}

InitSelect ==
    /\ nTaxonomy \in SelectTaxonomies
    /\ nQuery \in SelectQueries
    /\ nTarget = NULL
    /\ nNode = NoNode
    /\ nPath = [outcome |-> "none", path |-> <<>>]
    /\ nDone = FALSE
    /\ NoHandler
    /\ NoRetrieval
    /\ NoAggregation
    /\ NoExtension

SelectNode ==
    /\ ~nDone
    /\ nNode' = determineTargetNode(nQuery, nTaxonomy)
    /\ nDone' = TRUE
    /\ UNCHANGED <<nTaxonomy, nQuery, nTarget, nPath, loopVars, retrVars, aggVars,
                   extVars>>

NextSelect == SelectNode

SpecSelect == InitSelect /\ [][NextSelect]_vars

-----------------------------------------------------------------------------
(* verifyCitations on its own: the texts below against every list of up to  *)
(* MaxItems of the items below                                              *)

KatzCitation == <<lc("389"), US, lc("347")>>

CitationItems ==
    {Item("terry", TerryName, <<lc("392"), US, lc("1")>>, TerryRule, <<>>, <<>>, <<"root">>),
     \* the citation field carries the year: "389 U.S. 347 (1967)"
     Item("katz", <<Cap("katz")>>, KatzCitation \o <<lc("1967")>>, <<>>, <<>>, <<>>, <<"root">>),
     Item("smith", SmithName, <<>>, <<>>, <<>>, <<>>, <<"root">>),
     \* an item without a name
     Item("unnamed", <<>>, <<>>, TerryRule, <<>>, <<>>, <<"root">>),
     \* an item whose name is punctuation only: "--"
     Item("dashes", <<[w |-> "", cap |-> FALSE, p |-> "none"]>>, <<lc("347")>>, <<>>, <<>>,
          <<>>, <<"root">>)}

CitationItemLists ==
    UNION {[1..n -> CitationItems] : n \in 0..MaxItems}

CitationTexts ==
    {<<>>,
     ReplyClean,
     ReplyUnauthorized,
     ReplyMissingElement,
     ReplyMapped,
     <<Cap("under")>> \o KatzCitation \o Words(<<"a", "search", "requires", "a", "warrant">>),
     <<Cap("both")>> \o SmithName \o <<lc("and")>> \o TerryName \o <<lc("apply")>>,
     <<Cap("see")>> \o KatzName \o <<lc("and")>> \o SmithName}

InitCitations ==
    /\ tText \in CitationTexts
    /\ tItems \in CitationItemLists
    /\ tConstraints = <<>>
    /\ tOut = Check(NULL, NULL, 0, <<>>)
    /\ tDone = FALSE
    /\ NoHandler
    /\ NoRetrieval
    /\ NoAggregation
    /\ NoNavigation
    /\ NoSimilarity
    /\ NoInstances

VerifyCitations ==
    /\ ~tDone
    /\ tOut' = verifyCitations(tText, tItems)
    /\ tDone' = TRUE
    /\ UNCHANGED <<tText, tItems, tConstraints, loopVars, retrVars, aggVars, navVars,
                   simVars, twoVars>>

NextCitations == VerifyCitations

SpecCitations == InitCitations /\ [][NextCitations]_vars

-----------------------------------------------------------------------------
(* verifyRuleMappings on its own: the texts below against every list of up  *)
(* to MaxItems of the items below                                           *)

\* a rule whose similarity to the sentence BoundarySentence is 13/20
BoundaryRule ==
    Words(<<"must", "must", "must", "stop", "stop", "search", "search",
            "warrant", "warrant", "seizure", "seizure">>)

BoundarySentence ==
    Words(<<"must", "must", "must", "stop", "stop", "police", "may", "frisk">>)

WarrantRule == Words(<<"a", "search", "requires", "a", "warrant">>)

RuleItems ==
    {Item("terry", TerryName, <<>>, TerryRule, <<>>, <<>>, <<"root">>),
     Item("boundary", <<>>, <<>>, BoundaryRule, <<>>, <<>>, <<"root">>),
     \* a holding and no rule of law
     Item("katz", KatzName, <<>>, <<>>, WarrantRule, <<>>, <<"root">>),
     \* a rule and no rule of law; the holding is not read
     [Item("smith", SmithName, <<>>, <<>>, TerryRule, <<>>, <<"root">>)
        EXCEPT !.rule = WarrantRule],
     \* none of the three fields
     Item("bare", SmithName, <<>>, <<>>, <<>>, <<>>, <<"root">>)}

RuleItemLists ==
    UNION {[1..n -> RuleItems] : n \in 0..MaxItems}

RuleTexts ==
    {<<>>,
     ReplyClean,
     ReplyMapped,
     ReplyUnmapped,
     BoundarySentence,
     \* "Police must stop. The court shall frisk."
     Words(<<"police", "must">>) \o <<Dot(lc("stop")), Cap("the")>>
         \o Words(<<"court", "shall">>) \o <<Dot(lc("frisk"))>>,
     \* "A search requires a warrant. Police must stop and frisk."
     <<Cap("a")>> \o Words(<<"search", "requires", "a">>) \o <<Dot(lc("warrant")), Cap("police")>>
         \o Words(<<"must", "stop", "and">>) \o <<Dot(lc("frisk"))>>}

InitRules ==
    /\ tText \in RuleTexts
    /\ tItems \in RuleItemLists
    /\ tConstraints = <<>>
    /\ tOut = Check(NULL, NULL, 0, <<>>)
    /\ tDone = FALSE
    /\ NoHandler
    /\ NoRetrieval
    /\ NoAggregation
    /\ NoNavigation
    /\ NoSimilarity
    /\ NoInstances

VerifyRuleMappings ==
    /\ ~tDone
    /\ tOut' = verifyRuleMappings(tText, tItems)
    /\ tDone' = TRUE
    /\ UNCHANGED <<tText, tItems, tConstraints, loopVars, retrVars, aggVars, navVars,
                   simVars, twoVars>>

NextRules == VerifyRuleMappings

SpecRules == InitRules /\ [][NextRules]_vars

-----------------------------------------------------------------------------
(* verifyConstraintCompliance on its own: the texts below against every     *)
(* list of up to MaxItems of the constraints below                          *)

Constraint(id, type, content) ==
    [id |-> id,
     path |-> <<"root">>,
     note_type |-> type,
     content |-> content,
     is_test_standard |-> (type = "test/standard"),
     is_element_factor |-> (type = "element/factor"),
     is_macro_fork |-> (type = "macro-fork")]

ComplianceConstraints ==
    {Constraint("e1", "element/factor", Words(<<"reasonable", "suspicion">>)),
     Constraint("e2", "element/factor", Words(<<"totality", "of", "the", "circumstances">>)),
     \* no word longer than 3 characters
     Constraint("e3", "element/factor", Words(<<"the", "law">>)),
     \* the fourth of its words longer than 3 characters is "totality"
     Constraint("t1", "test/standard",
                Words(<<"police", "may", "stop", "and", "frisk", "on", "the", "totality">>)),
     Constraint("t2", "test/standard", Words(<<"reasonable", "suspicion">>)),
     Constraint("g1", "general", Words(<<"search", "warrant">>))}

ConstraintLists ==
    UNION {[1..n -> ComplianceConstraints] : n \in 0..MaxItems}

ComplianceTexts ==
    {<<>>,
     ReplyClean,
     ReplyMissingElement,
     ReplyMissingTest,
     <<Cap("reasonable"), Cap("suspicion")>>}

ContextOf(constraints) ==
    assembleAuthorizedContext(<<"root">>, MainHeadings[1], <<>>, constraints)

InitConstraints ==
    /\ tText \in ComplianceTexts
    /\ tItems = <<>>
    /\ tConstraints \in ConstraintLists
    /\ tOut = Check(NULL, NULL, 0, <<>>)
    /\ tDone = FALSE
    /\ NoHandler
    /\ NoRetrieval
    /\ NoAggregation
    /\ NoNavigation
    /\ NoSimilarity
    /\ NoInstances

VerifyConstraintCompliance ==
    /\ ~tDone
    /\ tOut' = verifyConstraintCompliance(tText, ContextOf(tConstraints))
    /\ tDone' = TRUE
    /\ UNCHANGED <<tText, tItems, tConstraints, loopVars, retrVars, aggVars, navVars,
                   simVars, twoVars>>

NextConstraints == VerifyConstraintCompliance

SpecConstraints == InitConstraints /\ [][NextConstraints]_vars

-----------------------------------------------------------------------------
(* computeCosineSimilarity on its own, on every pair of the texts below     *)

SimilarityTexts ==
    {<<>>,
     <<Cap("search")>>,
     Words(<<"search", "search">>),
     Words(<<"search", "warrant">>),
     <<Cap("search"), Cap("warrant")>>,
     WarrantRule,
     TerryRule,
     BoundaryRule,
     BoundarySentence,
     ReplyMapped}

InitSimilarity ==
    /\ sText1 \in SimilarityTexts
    /\ sText2 \in SimilarityTexts
    /\ sOut = Zero
    /\ sDone = FALSE
    /\ NoHandler
    /\ NoRetrieval
    /\ NoAggregation
    /\ NoNavigation
    /\ NoValidation
    /\ NoInstances

ComputeCosineSimilarity ==
    /\ ~sDone
    /\ sOut' = computeCosineSimilarity(sText1, sText2)
    /\ sDone' = TRUE
    /\ UNCHANGED <<sText1, sText2, loopVars, retrVars, aggVars, navVars, valVars, twoVars>>

NextSimilarity == ComputeCosineSimilarity

SpecSimilarity == InitSimilarity /\ [][NextSimilarity]_vars

-----------------------------------------------------------------------------
(* Two requests on one knowledge base.  kb is the knowledge base both        *)
(* requests carry; inst[i] holds the locals of the handler that serves      *)
(* request i, the Math.random values it draws, and the collaborator's       *)
(* answers to it so far.  The steps of the two handlers interleave at the   *)
(* awaits.                                                                  *)

\* the handler's locals when the request arrives
Handler(r) ==
    [req |-> r, rnd |-> <<>>, pc |-> "received", context |-> NoContext,
     instructions |-> <<>>, iterations |-> 0, generatedText |-> <<>>,
     validationReport |-> NoReport, status |-> NULL, response |-> NoResponse,
     replies |-> <<>>]

\* lines 60-72 on the record h: the next attempt is sent
invoked(h, prompt, iters) ==
    [h EXCEPT !.instructions = prompt, !.iterations = iters + 1, !.pc = "awaiting"]

\* lines 116-124 on the record h
returned(h, text, report, st, ctx, iters) ==
    [h EXCEPT !.response = Response(200, NULL, NULL, text, report, st, ctx, iters),
              !.pc = "done"]

\* the handler from the request to its first await or its return, reading
\* the knowledge base bset and drawing the values rnd
begun(h, bset, rnd) ==
    LET r == h.req
        result == processQuery(bset, r.query, r.target_node_id, rnd)
        ctx == result.value
        prompt == firstInstructions(ctx, r)
        drawn == [h EXCEPT !.rnd = rnd]
    IN  IF missingRequiredField(r)
        THEN [h EXCEPT !.response = ErrorResponse(400,
                            "Missing required fields: query and bset_file", NULL, NoContext),
                       !.pc = "done"]
        ELSE IF result.threw
        THEN [drawn EXCEPT !.response = ErrorResponse(500, "Internal server error",
                                                      result.value, NoContext),
                           !.pc = "done"]
        ELSE IF noReasoningObjects(ctx)
        THEN [drawn EXCEPT !.response = ErrorResponse(404,
                                "No authorized reasoning objects found for this query", NULL, ctx),
                           !.context = ctx,
                           !.pc = "done"]
        ELSE LET entered == [drawn EXCEPT !.context = ctx, !.instructions = prompt,
                                          !.status = "rejected"]
             IN  IF loopCondition(0, maxIterationsOf(r))
                 THEN invoked(entered, prompt, 0)
                 ELSE returned(entered, <<>>, NoReport, "rejected", ctx, 0)

\* the collaborator answers text: lines 74-114, then the next attempt or the
\* return
replied(h, text) ==
    LET report == validateGeneratedText(text, h.context)
        step == stepNine(report, h.iterations, maxIterationsOf(h.req), h.status)
        prompt == IF step.strengthen THEN retryInstructions(report, h.context, h.req)
                  ELSE h.instructions
        seen == [h EXCEPT !.generatedText = text, !.validationReport = report,
                          !.status = step.status, !.instructions = prompt,
                          !.replies = Append(@, [kind |-> "text", text |-> text])]
    IN  IF ~step.break /\ loopCondition(h.iterations, maxIterationsOf(h.req))
        THEN invoked(seen, prompt, h.iterations)
        ELSE returned(seen, text, report, step.status, h.context, h.iterations)

\* the collaborator call rejects: the catch block, lines 126-135
failed(h) ==
    [h EXCEPT !.response = ErrorResponse(500, "Internal server error",
                                         "collaborator error", NoContext),
              !.pc = "done",
              !.replies = Append(@, [kind |-> "error", text |-> <<>>])]

\* a variant in which retrieval takes the items it returns out of the
\* knowledge base (items.splice)
kbAfterConsuming(bset, h) ==
    [bset EXCEPT !.items = SelectSeq(bset.items,
                               LAMBDA item : item \notin ToSet(h.context.reasoning_objects))]

\* the knowledge base after a step of a handler: no step writes to it
kbAfter(bset, h) == bset

TwoBSetNames == {"main"}

TwoRequests(name) ==
    [query : {Words(<<"search">>), Words(<<"what", "is", "the", "law">>)},
     bset_file : {name},
     target_node_id : {NULL, "seizure"},
     max_iterations : {<<2>>},
     system_instructions : {<<>>}]

TwoReplies == {ReplyClean, ReplyUnmapped, ReplyUnauthorized}

\* the values one request draws from Math.random: one value throughout
RandomDraws(n) == {[k \in 1..n |-> id] : id \in RandomIds}

InitTwo ==
    /\ \E name \in TwoBSetNames :
          /\ kb = bsetOf(name)
          /\ inst \in [1..2 -> {Handler(r) : r \in TwoRequests(name)}]
    /\ NoHandler
    /\ NoRetrieval
    /\ NoAggregation
    /\ NoNavigation
    /\ NoValidation
    /\ NoSimilarity

BeginOf(i) ==
    /\ inst[i].pc = "received"
    /\ \E rnd \in RandomDraws(notesCount(kb)) :
       \E h \in {begun(inst[i], kb, rnd)} :
           /\ inst' = [inst EXCEPT ![i] = h]
           /\ kb' = kbAfter(kb, h)
    /\ UNCHANGED <<loopVars, retrVars, aggVars, navVars, valVars, simVars>>

ReplyOf(i, text) ==
    /\ inst[i].pc = "awaiting"
    /\ \E h \in {replied(inst[i], text)} :
           /\ inst' = [inst EXCEPT ![i] = h]
           /\ kb' = kbAfter(kb, h)
    /\ UNCHANGED <<loopVars, retrVars, aggVars, navVars, valVars, simVars>>

FailOf(i) ==
    /\ inst[i].pc = "awaiting"
    /\ inst' = [inst EXCEPT ![i] = failed(inst[i])]
    /\ kb' = kbAfter(kb, inst'[i])
    /\ UNCHANGED <<loopVars, retrVars, aggVars, navVars, valVars, simVars>>

NextTwo ==
    \E i \in 1..2 :
        \/ BeginOf(i)
        \/ \E text \in TwoReplies : ReplyOf(i, text)
        \/ FailOf(i)

SpecTwo == InitTwo /\ [][NextTwo]_vars

-----------------------------------------------------------------------------
(* Properties of the generation loop (Spec) *)

\* The k-th report of `reports` is the validation of the reply to the k-th
\* prompt of `calls`: a call was made after validation k iff Len(calls) > k.

LoopReturned == pc = "done" /\ response.http = 200

\* C1: a further collaborator call is made after a validation only if that
\* validation's severity is MAJOR and the attempts made so far are fewer than
\* maxIterations; after a CRITICAL or MINOR validation no call is ever made.
C1_RetryOnlyAfterMajor ==
    \A k \in 1..Len(reports) :
        Len(calls) > k =>
            /\ reports[k].severity = "MAJOR"
            /\ k < maxIterationsOf(req)

\* a retry was made after a MAJOR report, and none after the MINOR report
\* that followed although an attempt remained
C1_Witness ==
    /\ pc = "done"
    /\ maxIterationsOf(req) = 3
    /\ Len(reports) = 2 /\ Len(calls) = 2
    /\ reports[1].severity = "MAJOR"
    /\ reports[2].severity = "MINOR"

\* the matching relation of the citation check as the specification words it:
\* the normalized citation equals, contains or is contained by the normalized
\* name or citation field of the item
MatchesItem(normalized, obj) ==
    \E field \in {normalizeCitation(obj.name), normalizeCitation(obj.citation)} :
        \/ normalized = field
        \/ includes(normalized, field)
        \/ includes(field, normalized)

HasUnmatchedCitation(text, ctx) ==
    \E c \in ToSet(extractCitations(text)) :
        \A k \in 1..Len(ctx.reasoning_objects) :
            ~MatchesItem(normalizeCitation(c), ctx.reasoning_objects[k])

CheckOf(report, type) ==
    CHOOSE c \in ToSet(report.validation_checks) : c.check_type = type

C3_MinorIsFlagged ==
    (Len(reports) >= 1 /\ validationReport.severity = "MINOR") =>
        /\ LoopReturned
        /\ response.iterations = Len(reports)
        /\ response.status = "flagged"

\* C4: a response has status "validated" only when the report returned with
\* it is PASSED, with no FAIL check, and is the validation of exactly the
\* generated text returned in the same response.
C4_ValidatedOnlyWhenPassed ==
    (LoopReturned /\ response.status = "validated") =>
        /\ response.validation_report.overall_status = "PASSED"
        /\ \A c \in ToSet(response.validation_report.validation_checks) : c.status # "FAIL"
        /\ ~HasUnmatchedCitation(response.generated_text, response.authorized_context)
        /\ Len(reports) >= 1
        /\ response.generated_text = generatedText
        /\ response.validation_report = reports[Len(reports)]
        /\ response.validation_report =
               validateGeneratedText(response.generated_text, response.authorized_context)

\* a text validated on the second attempt
C4_Witness ==
    /\ LoopReturned
    /\ response.status = "validated"
    /\ response.iterations = 2
    /\ extractCitations(response.generated_text) # <<>>

\* the bound on the attempts: 3 when the request carries no max_iterations
AttemptBound == IF req.max_iterations = <<>> THEN 3 ELSE req.max_iterations[1]

\* C5: for every maxIterations >= 1 and every sequence of replies the loop
\* terminates, the number of collaborator calls equals the iterations value
\* returned, and that value lies between 1 and maxIterations (3 by default).
\* Termination is stated by its bound: every reply is the reply to one call,
\* no call is made beyond the bound, and once the collaborator has answered
\* maxIterations calls the handler has returned.
C5_BoundedAttempts ==
    AttemptBound >= 1 =>
        /\ Len(calls) <= AttemptBound
        /\ Len(reports) <= Len(calls)
        /\ (pc = "awaiting") => (Len(reports) = Len(calls) - 1)
        /\ (Len(reports) = AttemptBound) => pc = "done"
        /\ LoopReturned =>
               /\ Len(calls) = response.iterations
               /\ response.iterations >= 1
               /\ response.iterations <= AttemptBound

\* the default bound reached: three calls, iterations = 3
C5_Witness ==
    /\ LoopReturned
    /\ req.max_iterations = <<>>
    /\ response.iterations = 3
    /\ Len(calls) = 3

\* C6: when every permitted attempt ends with severity MAJOR the response is
\* a normal one with status "flagged" after exactly maxIterations calls; and
\* once the collaborator has answered every call, whatever the severities of
\* the validations, the handler does not answer with an error.
C6_ExhaustionIsFlagged ==
    /\ (/\ Len(reports) >= 1
        /\ Len(reports) = maxIterationsOf(req)
        /\ \A k \in 1..Len(reports) : reports[k].severity = "MAJOR")
       => (/\ LoopReturned
           /\ response.status = "flagged"
           /\ Len(calls) = maxIterationsOf(req)
           /\ response.iterations = maxIterationsOf(req))
    /\ (pc = "done" /\ Len(reports) >= 1 /\ Len(reports) = Len(calls))
       => (/\ response.http = 200
           /\ response.error = NULL
           /\ response.status \in {"validated", "flagged", "rejected"})

\* three attempts, each MAJOR
C6_Witness ==
    /\ LoopReturned
    /\ Len(reports) = 3
    /\ maxIterationsOf(req) = 3
    /\ \A k \in 1..3 : reports[k].severity = "MAJOR"
    /\ response.status = "flagged"

\* a report with its three checks and the status derived from them
FullReport(report) ==
    /\ {c.check_type : c \in ToSet(report.validation_checks)}
          = {"citation_verification", "rule_to_field_mapping", "constraint_compliance"}
    /\ report.overall_status \in {"PASSED", "FAILED"}
    /\ report = aggregateChecks(report.validation_checks)

\* C7: every response whose status is "rejected" or "flagged" carries the last
\* text generated by the collaborator and a full validation report, whatever
\* max_iterations the request carries.
C7_RejectedCarriesReport ==
    (LoopReturned /\ response.status \in {"rejected", "flagged"}) =>
        /\ Len(reports) >= 1
        /\ response.generated_text = generatedText
        /\ response.validation_report = reports[Len(reports)]
        /\ FullReport(response.validation_report)

-----------------------------------------------------------------------------
(* Properties of the aggregation (SpecAggregate) *)

StatusOf(checks, type) ==
    (CHOOSE c \in ToSet(checks) : c.check_type = type).status

\* C8: for every combination of statuses of the three checks, in every order:
\* CRITICAL/REJECT if the citation check is FAIL; else MAJOR/REGENERATE if any
\* check is FAIL; else MINOR/CORRECT if any check is WARNING; else no severity
\* and no action; the overall status is PASSED exactly when no check is FAIL.
C8_Aggregation ==
    vDone =>
        LET citationFailed == StatusOf(vChecks, "citation_verification") = "FAIL"
            anyFailed == \E t \in CheckTypes : StatusOf(vChecks, t) = "FAIL"
            anyWarning == \E t \in CheckTypes : StatusOf(vChecks, t) = "WARNING"
        IN  /\ vOut.validation_checks = vChecks
            /\ (vOut.overall_status = "PASSED") <=> ~anyFailed
            /\ vOut.overall_status \in {"PASSED", "FAILED"}
            /\ IF citationFailed
               THEN vOut.severity = "CRITICAL" /\ vOut.recommended_action = "REJECT"
               ELSE IF anyFailed
               THEN vOut.severity = "MAJOR" /\ vOut.recommended_action = "REGENERATE"
               ELSE IF anyWarning
               THEN vOut.severity = "MINOR" /\ vOut.recommended_action = "CORRECT"
               ELSE vOut.severity = NULL /\ vOut.recommended_action = NULL

\* the rule-mapping check failed and came first, the citation check passed:
\* MAJOR, not CRITICAL
C8_Witness ==
    /\ vDone
    /\ vChecks[1].check_type = "rule_to_field_mapping"
    /\ vChecks[1].status = "FAIL"
    /\ StatusOf(vChecks, "citation_verification") = "WARNING"
    /\ vOut.severity = "MAJOR"

-----------------------------------------------------------------------------
(* Properties of the retrieval (SpecRetrieve) *)

\* path q is a prefix of path p: p equals q or extends it
EqualsOrExtends(p, q) == Len(q) <= Len(p) /\ SubSeq(p, 1, Len(q)) = q

IsExactMatch(item) == item.taxonomy_path = rPath
IsStrictExtension(item) ==
    EqualsOrExtends(item.taxonomy_path, rPath) /\ item.taxonomy_path # rPath

-----------------------------------------------------------------------------
(* Properties of the authorized context (Spec) *)

\* the taxonomy of the request
HeadingsOf(r) == bsetOf(r.bset_file).headings

\* path runs from an ancestor of node down to node, each element the parent
\* of the next, and starts where the walk up from node stops: at a node
\* without a parent, or at one whose parent is not a node of the taxonomy
IsWalkTo(path, node, taxonomy) ==
    /\ path # <<>>
    /\ path[Len(path)] = node.id
    /\ \A i \in 1..(Len(path) - 1) :
          \E n \in ToSet(taxonomy) : n.id = path[i + 1] /\ n.parent_id = path[i]
    /\ LET top == IF Len(path) = 1 THEN node
                  ELSE CHOOSE n \in ToSet(taxonomy) : n.id = path[1]
       IN  \/ top.parent_id = NULL
           \/ \A n \in ToSet(taxonomy) : n.id # top.parent_id

-----------------------------------------------------------------------------
(* The README's account of retrieval (SpecRetrieve) *)

\* C12: retrieval returns exactly the items whose taxonomy_path is the
\* computed analytical path or a prefix of it: the item on the target node
\* and the items on its ancestors are returned, an item on another branch
\* is not.
C12_ItemsOnPathAndAncestors ==
    rDone =>
        \A k \in 1..Len(rItems) :
            (\E j \in 1..Len(rOut) : rOut[j] = rItems[k])
                <=> EqualsOrExtends(rPath, rItems[k].taxonomy_path)

-----------------------------------------------------------------------------
(* Properties of computeAnalyticalPath (SpecPath) *)

\* the parent id of the node with this id; NULL when there is none
ParentOf(taxonomy, id) ==
    IF \E n \in ToSet(taxonomy) : n.id = id
    THEN (CHOOSE n \in ToSet(taxonomy) : n.id = id).parent_id
    ELSE NULL

\* the n-th ancestor of the node with this id, NULL above the top
RECURSIVE Up(_, _, _)
Up(taxonomy, id, n) ==
    IF n = 0 THEN id
    ELSE LET below == Up(taxonomy, id, n - 1)
         IN  IF below = NULL THEN NULL ELSE ParentOf(taxonomy, below)

AllParentsResolve(taxonomy) ==
    \A n \in ToSet(taxonomy) :
        n.parent_id = NULL \/ \E m \in ToSet(taxonomy) : m.id = n.parent_id

Acyclic(taxonomy) ==
    \A n \in ToSet(taxonomy) : Up(taxonomy, n.id, Len(taxonomy)) = NULL

\* the number of parent links between the node and the top of its chain
Depth(taxonomy, id) ==
    CHOOSE d \in 0..Len(taxonomy) :
        Up(taxonomy, id, d) # NULL /\ Up(taxonomy, id, d + 1) = NULL

\* C13: for every node of a taxonomy in which every parent id resolves and
\* the parent links are acyclic, computeAnalyticalPath returns, and what it
\* returns begins at a parentless node, ends with the node's id, has each
\* element the parent of the next and has length depth + 1.
C13_PathOfWellFormedTaxonomy ==
    (nDone /\ AllParentsResolve(nTaxonomy) /\ Acyclic(nTaxonomy)) =>
        /\ nPath.outcome = "returned"
        /\ nPath.path # <<>>
        /\ ParentOf(nTaxonomy, nPath.path[1]) = NULL
        /\ nPath.path[Len(nPath.path)] = nTarget
        /\ \A i \in 1..(Len(nPath.path) - 1) :
              ParentOf(nTaxonomy, nPath.path[i + 1]) = nPath.path[i]
        /\ Len(nPath.path) = Depth(nTaxonomy, nTarget) + 1

\* the path of a node two levels below a parentless node
C13_Witness ==
    /\ nDone
    /\ AllParentsResolve(nTaxonomy) /\ Acyclic(nTaxonomy)
    /\ nPath.outcome = "returned"
    /\ Len(nPath.path) = 3
    /\ nTarget # "c"

-----------------------------------------------------------------------------
(* Properties of the request's input errors and outcomes (Spec) *)

\* the request carries a query and a knowledge base
HasRequiredFields(r) == r.query # <<>> /\ r.bset_file # NULL

\* the node the request resolves to: the node named by target_node_id when
\* one is given, else the node selected for the query; NoNode when none
TargetOf(r) ==
    IF ~falsy(r.target_node_id) THEN findNode(HeadingsOf(r), r.target_node_id)
    ELSE determineTargetNode(r.query, HeadingsOf(r))

\* some node on the parent chain of the node names a parent that is not a
\* node of the taxonomy
HasMissingParent(taxonomy, id) ==
    \E d \in 0..Len(taxonomy) :
        LET a == Up(taxonomy, id, d)
        IN  /\ \E n \in ToSet(taxonomy) : n.id = a
            /\ ParentOf(taxonomy, a) # NULL
            /\ \A m \in ToSet(taxonomy) : m.id # ParentOf(taxonomy, a)

\* C14: when the parent chain of the target node names a parent that is not
\* in the taxonomy, the request ends with an error: no context is built on a
\* truncated path, no retrieval result is used and the collaborator is not
\* called.
C14_MissingParentIsError ==
    (/\ pc # "received"
     /\ HasRequiredFields(req)
     /\ TargetOf(req) # NoNode
     /\ HasMissingParent(HeadingsOf(req), TargetOf(req).id)) =>
        /\ pc = "done"
        /\ response.http \notin {200, 404}
        /\ response.error # NULL
        /\ context = NoContext
        /\ calls = <<>>

-----------------------------------------------------------------------------
(* Properties of determineTargetNode (SpecSelect) *)

\* the similarity of the query and the title of node k
ScoreOf(k) == computeCosineSimilarity(nQuery, nTaxonomy[k].title)

\* 0.15, as the fraction of its square
DefaultThreshold == [num |-> 225, den |-> 10000]

\* the nodes whose score strictly exceeds the threshold
AboveThreshold == {k \in 1..Len(nTaxonomy) : Less(DefaultThreshold, ScoreOf(k))}

\* the tokens of the query that are longer than two characters and are not
\* stop words
SurvivingTokens ==
    SelectSeq(punctToSpaceWords(toLowerCase(nQuery)),
              LAMBDA w : CharLen(w) > 2 /\ w \notin stopWords)

\* the first parentless node, or the first node when none is parentless
FirstRoot ==
    LET roots == {k \in 1..Len(nTaxonomy) : nTaxonomy[k].parent_id = NULL}
    IN  IF roots # {} THEN nTaxonomy[CHOOSE k \in roots : \A j \in roots : k <= j]
        ELSE nTaxonomy[1]

\* the first node, in enumeration order, among those with the highest score
\* above the threshold
FirstBest ==
    LET best == {k \in AboveThreshold : \A j \in AboveThreshold : ~Less(ScoreOf(k), ScoreOf(j))}
    IN  nTaxonomy[CHOOSE k \in best : \A j \in best : k <= j]

\* C15: determineTargetNode returns the node with the highest similarity to
\* the query among the nodes whose score strictly exceeds 0.15, the first
\* such node in enumeration order when several share it; when no node
\* exceeds the threshold, or no token of the query survives the length and
\* stop-word filter, it returns the first parentless node, or the first node
\* when none is parentless.
C15_BestNodeOrRoot ==
    (nDone /\ nTaxonomy # <<>>) =>
        nNode = IF SurvivingTokens = <<>> \/ AboveThreshold = {}
                THEN FirstRoot
                ELSE FirstBest

\* two later nodes share the highest score and the first of them is returned
C15_Witness ==
    /\ nDone
    /\ Len(nTaxonomy) = 3
    /\ SurvivingTokens # <<>>
    /\ AboveThreshold = {1, 2, 3}
    /\ Less(ScoreOf(1), ScoreOf(2))
    /\ ~Less(ScoreOf(2), ScoreOf(3)) /\ ~Less(ScoreOf(3), ScoreOf(2))
    /\ nNode = nTaxonomy[2]

\* the request names a target node (an empty id counts as none given)
NamesTarget(r) == r.target_node_id # NULL /\ r.target_node_id # ""

FieldsNamedBy(error) ==
    IF error = "Missing required fields: query and bset_file"
    THEN {"query", "bset_file"}
    ELSE {}

MissingFields(r) ==
    (IF r.query = <<>> THEN {"query"} ELSE {})
        \cup (IF r.bset_file = NULL THEN {"bset_file"} ELSE {})

C18_EmptyAuthorizationOutcome ==
    /\ (context # NoContext /\ context.reasoning_objects = <<>>) =>
          /\ pc = "done"
          /\ response.http = 404
          /\ response.error = "No authorized reasoning objects found for this query"
          /\ response.details = NULL
          /\ response.status = NULL
          /\ response.authorized_context = context
          /\ calls = <<>>
          /\ iterations = 0
    /\ (pc = "done" /\ response.http = 404) =>
          context # NoContext /\ context.reasoning_objects = <<>>

\* the node "warrant" resolves and has no item on it or below it
C18_Witness ==
    /\ pc = "done"
    /\ response.http = 404
    /\ context.target_node.id = "warrant"
    /\ context.analytical_path = <<"root", "search", "warrant">>
    /\ context.reasoning_objects = <<>>

\* C19: a collaborator call that fails is the last step of the request: its
\* reply is not validated and no further call is made (at any time at most
\* one call is without a report, and it is the last), and the request ends
\* with the transport-failure error, HTTP 500, which carries none of the
\* statuses validated, flagged and rejected, no text and no report.
C19_TransportFailureAborts ==
    /\ Len(calls) <= Len(reports) + 1
    /\ iterations = Len(calls)
    /\ (pc = "done" /\ Len(calls) > Len(reports)) =>
          /\ response.http = 500
          /\ response.error = "Internal server error"
          /\ response.details # NULL
          /\ response.status \notin {"validated", "flagged", "rejected"}
          /\ response.generated_text = <<>>
          /\ response.validation_report = NoReport

\* the call of the second attempt failed, after a first reply was validated
C19_Witness ==
    /\ pc = "done"
    /\ Len(calls) = 2
    /\ Len(reports) = 1
    /\ response.http = 500
    /\ maxIterationsOf(req) = 3

-----------------------------------------------------------------------------
(* Properties of the retry prompt (Spec) *)

\* the check category a directive of the feedback block answers
CategoryOf(directive) ==
    IF directive = "only_cite_authorized" THEN "citation_verification"
    ELSE IF directive \in {"quote_rule_of_law", "assertion_did_not_map"}
    THEN "rule_to_field_mapping"
    ELSE "constraint_compliance"

FailedCheck(report, type) ==
    \E c \in ToSet(report.validation_checks) : c.check_type = type /\ c.status = "FAIL"

HowMany(body, directive) ==
    Cardinality({i \in 1..Len(body) : body[i].directive = directive})

\* body is the feedback derived from the FAIL checks of report, and from
\* nothing else
IsFeedbackOf(body, report) ==
    /\ \A i \in 1..Len(body) : FailedCheck(report, CategoryOf(body[i].directive))
    /\ HowMany(body, "only_cite_authorized") =
          (IF FailedCheck(report, "citation_verification") THEN 1 ELSE 0)
    /\ HowMany(body, "quote_rule_of_law") =
          (IF FailedCheck(report, "rule_to_field_mapping") THEN 1 ELSE 0)
    /\ FailedCheck(report, "rule_to_field_mapping") =>
          /\ HowMany(body, "assertion_did_not_map") = 1
          /\ \E i \in 1..Len(body) :
                /\ body[i].directive = "assertion_did_not_map"
                /\ body[i].about # <<>>
                /\ body[i].about = CheckOf(report, "rule_to_field_mapping").failed_assertion
    /\ FailedCheck(report, "constraint_compliance") =>
          /\ HowMany(body, "address_element") = 1
          /\ \E i \in 1..Len(body) :
                /\ body[i].directive = "address_element"
                /\ body[i].about = CheckOf(report, "constraint_compliance").missing_element

\* C20: the prompt of every retry is the compiled instructions for the
\* context and the query followed by one feedback block, whose directives
\* come from the FAIL checks of the report of the attempt just before it:
\* one fixed sentence per failing category and, for a rule-mapping failure,
\* a directive naming the unmapped sentence.  Nothing of an earlier feedback
\* block is kept, and the prompt of the first attempt has no feedback block.
C20_RetryPromptFeedback ==
    /\ \A k \in 2..Len(calls) :
          /\ Len(calls[k]) = Len(generateStructuredInstructions(context, req.query)) + 1
          /\ SubSeq(calls[k], 1, Len(calls[k]) - 1) =
                generateStructuredInstructions(context, req.query)
          /\ calls[k][Len(calls[k])].block = "feedback"
          /\ IsFeedbackOf(calls[k][Len(calls[k])].body, reports[k - 1])
    /\ Len(calls) >= 1 =>
          \A i \in 1..Len(calls[1]) : calls[1][i].block # "feedback"

\* a third attempt after two MAJOR reports that failed different checks
C20_Witness ==
    /\ Len(calls) = 3
    /\ Len(reports) >= 2
    /\ FailedCheck(reports[1], "rule_to_field_mapping")
    /\ ~FailedCheck(reports[1], "constraint_compliance")
    /\ FailedCheck(reports[2], "constraint_compliance")
    /\ ~FailedCheck(reports[2], "rule_to_field_mapping")
    /\ req.system_instructions # <<>>

-----------------------------------------------------------------------------
(* Properties of the citation check (SpecCitations) *)

\* the normalized citation equals, contains or is contained by the field
Related(normalized, field) ==
    \/ normalized = field
    \/ includes(normalized, field)
    \/ includes(field, normalized)

\* the normalized name and the normalized citation field of an item, as far
\* as the item has them
FieldsOf(obj) ==
    {normalizeCitation(obj.name), normalizeCitation(obj.citation)} \ {<<>>}

\* the citation is authorized by some item of the list
IsAuthorizedCitation(citation, objs) ==
    \E k \in 1..Len(objs) : \E field \in FieldsOf(objs[k]) :
        Related(normalizeCitation(citation), field)

UnauthorizedIn(text, objs) ==
    SelectSeq(extractCitations(text), LAMBDA c : ~IsAuthorizedCitation(c, objs))

\* C21: a citation extracted from the text is authorized if and only if its
\* normalized form equals, contains or is contained by the normalized name or
\* the normalized citation field of some authorized item; the check is FAIL
\* exactly when some extracted citation is not authorized, and then reports
\* the first of them.
C21_CitationAuthorizedIff ==
    tDone =>
        /\ tOut.status \in {"PASS", "FAIL"}
        /\ tOut.status = "FAIL" <=> UnauthorizedIn(tText, tItems) # <<>>
        /\ UnauthorizedIn(tText, tItems) # <<>> =>
              tOut.failed_assertion = UnauthorizedIn(tText, tItems)[1]

\* C28: the citation check passes only if every citation extracted from the
\* text equals, contains or is contained by a non-empty normalized name or
\* citation of some authorized item; an item whose name is empty, or
\* normalizes to the empty string, authorizes no citation by itself.
C28_EmptyNameAuthorizesNothing ==
    (tDone /\ tOut.status = "PASS") =>
        \A c \in ToSet(extractCitations(tText)) : IsAuthorizedCitation(c, tItems)

-----------------------------------------------------------------------------
(* Properties of the rule-mapping check (SpecRules) *)

\* 0.65, as the fraction of its square
SixtyFiveHundredths == [num |-> 65 * 65, den |-> 100 * 100]

SameValue(a, b) == a.num * b.den = b.num * a.den

\* the similarities of a sentence to the rule-of-law, rule or holding field
\* of the items that have one
SimilaritiesOf(sentence, objs) ==
    {computeSimilarity(sentence, authorizedRuleOf(objs[k])) :
        k \in {j \in 1..Len(objs) : authorizedRuleOf(objs[j]) # <<>>}}

\* the best similarity of the sentence: the largest of them, or 0 when no
\* item has such a field
BestSimilarity(sentence, objs) ==
    LET sims == SimilaritiesOf(sentence, objs)
    IN  IF sims = {} THEN Zero
        ELSE CHOOSE u \in sims : \A x \in sims : ~Less(u, x)

\* the normative sentences whose best similarity is strictly below 0.65
FailingSentences(text, objs) ==
    LET rules == extractRuleStatements(text)
    IN  {k \in 1..Len(rules) : Less(BestSimilarity(rules[k], objs), SixtyFiveHundredths)}

-----------------------------------------------------------------------------
(* Properties of the constraint-compliance check (SpecConstraints) *)

\* the words of a constraint that are longer than 3 characters, in order
LongWords(c) == keywordsOf(c.content)

Occurs(word, text) == includesWord(toLowerCase(text), word)

\* a required element none of whose long words occurs in the text
IsMissingElement(c, text) ==
    /\ c.is_element_factor
    /\ LongWords(c) # <<>>
    /\ \A i \in 1..Len(LongWords(c)) : ~Occurs(LongWords(c)[i], text)

\* a required test none of whose first three long words occurs in the text
IsMissingTest(c, text) ==
    /\ c.is_test_standard
    /\ LongWords(c) # <<>>
    /\ \A i \in 1..Len(LongWords(c)) : i <= 3 => ~Occurs(LongWords(c)[i], text)

\* C23: the constraint-compliance check is FAIL, reporting the first missing
\* element, when some required element has none of its words longer than 3
\* characters in the text; otherwise WARNING when some required test has none
\* of its first three such words in the text; otherwise PASS.  A missing test
\* alone never yields FAIL.
C23_ComplianceOutcome ==
    tDone =>
        LET missingElements ==
                {k \in 1..Len(tConstraints) : IsMissingElement(tConstraints[k], tText)}
            missingTests ==
                {k \in 1..Len(tConstraints) : IsMissingTest(tConstraints[k], tText)}
        IN  /\ tOut.status = (IF missingElements # {} THEN "FAIL"
                              ELSE IF missingTests # {} THEN "WARNING"
                              ELSE "PASS")
            /\ missingElements # {} =>
                  \E k \in missingElements :
                      /\ \A j \in missingElements : k <= j
                      /\ tOut.missing_element = tConstraints[k].content

\* a required test is missing although a later word of it occurs in the text,
\* no element is missing, and the check gave WARNING
C23_Witness ==
    /\ tDone
    /\ tOut.status = "WARNING"
    /\ \E k \in 1..Len(tConstraints) :
          /\ IsMissingTest(tConstraints[k], tText)
          /\ \E i \in 1..Len(LongWords(tConstraints[k])) :
                Occurs(LongWords(tConstraints[k])[i], tText)
    /\ \E k \in 1..Len(tConstraints) :
          tConstraints[k].is_element_factor /\ ~IsMissingElement(tConstraints[k], tText)

-----------------------------------------------------------------------------
(* Properties of the similarity function (SpecSimilarity) *)

\* C25: the similarity of a non-empty text to itself is 1, and the
\* similarity is 0 whenever either argument is the empty text.
C25_SimilarityIdentityAndEmpty ==
    sDone =>
        /\ (sText1 = sText2 /\ sText1 # <<>>) => SameValue(sOut, One)
        /\ (sText1 = <<>> \/ sText2 = <<>>) => SameValue(sOut, Zero)

-----------------------------------------------------------------------------
(* The system instructions of a request (Spec) *)

\* the prompt begins with the system instructions, followed by the compiled
\* instructions
BeginsWithSystemInstructions(prompt, r, ctx) ==
    LET compiled == generateStructuredInstructions(ctx, r.query)
    IN  /\ Len(prompt) >= 1 + Len(compiled)
        /\ prompt[1] = [block |-> "system", body |-> r.system_instructions]
        /\ SubSeq(prompt, 2, 1 + Len(compiled)) = compiled

\* C27: when the request supplies system_instructions, the prompt of every
\* attempt, the first and every retry, begins with those system_instructions
\* followed by the compiled instructions.
C27_SystemInstructionsEveryAttempt ==
    req.system_instructions # <<>> =>
        \A k \in 1..Len(calls) : BeginsWithSystemInstructions(calls[k], req, context)

-----------------------------------------------------------------------------
(* Properties of two requests on one knowledge base (SpecTwo) *)

\* the handler of request i has processed the query
Processed(i) == inst[i].pc # "received" /\ inst[i].response.http \notin {400, 500}

\* C24: processing the same query against the same knowledge base twice
\* yields the same authorized context: target node, analytical path, items
\* and constraint records, field for field and in the same order.
C24_SameQuerySameContext ==
    \A i, j \in 1..2 :
        (/\ inst[i].req = inst[j].req
         /\ Processed(i)
         /\ Processed(j))
            => inst[i].context = inst[j].context

\* the handler that serves request r alone on the knowledge base bset, with
\* the Math.random values rnd, after the collaborator's answers replies[1..k]
RECURSIVE aloneUpTo(_, _, _, _, _)
aloneUpTo(r, bset, rnd, replies, k) ==
    IF k = 0 THEN begun(Handler(r), bset, rnd)
    ELSE LET before == aloneUpTo(r, bset, rnd, replies, k - 1)
         IN  IF replies[k].kind = "error" THEN failed(before)
             ELSE replied(before, replies[k].text)

AsAlone(h) ==
    h = aloneUpTo(h.req, bsetOf(h.req.bset_file), h.rnd, h.replies, Len(h.replies))

=============================================================================
